---- MODULE Spec2Model ----
(***************************************************************************)
(* esp-storage, src/common.rs: FlashStorage, the bounds- and alignment-    *)
(* checked front end of the ROM flash routines.                            *)
(*                                                                         *)
(* The device is the pair (capacity, unlocked).  The ROM routines          *)
(* (the chip_specific::esp_rom_spiflash family) are external: each call    *)
(* returns an i32 status chosen nondeterministically, and the calls an     *)
(* operation makes are recorded, in order, in `calls`.                     *)
(*                                                                         *)
(* Numbers.  The targets are 32-bit, so usize and u32 are both 32 bits     *)
(* wide.  TLC's integers stop at 2^31 - 1, so a u32 that is subject to     *)
(* 32-bit arithmetic or that a caller can choose freely (an offset, a      *)
(* sector, the operands of check_bounds' subtraction) is held as two       *)
(* 16-bit limbs <<hi, lo>>.  capacity (at most 16 MiB) and slice lengths   *)
(* (at most isize::MAX = 2^31 - 1 in Rust) are plain naturals.             *)
(***************************************************************************)
EXTENDS Integers, Sequences, FiniteSets, TLC

\* ------------------------------------------------------------------ bounds

\* Offsets and lengths are drawn within NearWords words of 0, of capacity and
\* of the top of their type.
NearWords == 1

\* Sector indices 0..MaxSector, and the first sector past capacity.
MaxSector == 1

\* ROM status codes are drawn from -1..MaxRc (0 ok, 1, 2 known, the rest other).
MaxRc == 3

\* ------------------------------------------------------- program constants

WORD_SIZE == 4

SECTOR_SIZE == 4096

\* ADDR of FlashStorage::new, by chip feature.
ADDR_DEFAULT == 0

ADDR_ESP32 == 4096

\* The identification buffer of FlashStorage::new: [MaybeUninit::new(0u8); 8].
ID_LEN == 8

MIB == 1024 * 1024

\* ------------------------------------------------------- 32-bit arithmetic

LIMB == 2^16

\* The u32/usize with value n, for 0 <= n < 2^31.
u32(n) == <<n \div LIMB, n % LIMB>>

U32_MAX == <<LIMB - 1, LIMB - 1>>

\* a > b on u32.
u32_gt(a, b) == a[1] > b[1] \/ (a[1] = b[1] /\ a[2] > b[2])

\* a - b on usize as usize::overflowing_sub gives it: the difference modulo
\* 2^32, and whether it wrapped (a debug build panics where it does).
overflowing_sub(a, b) ==
    LET lo == a[2] - b[2]
        borrow == IF lo < 0 THEN 1 ELSE 0
        hi == a[1] - b[1] - borrow
    IN  [value |-> <<hi % LIMB, lo % LIMB>>, overflow |-> hi < 0]

\* a % m on u32, for 0 < m <= LIMB.
u32_rem(a, m) == ((a[1] % m) * (LIMB % m) + a[2]) % m

\* ------------------------------------------------------------------ results

\* Result<(), FlashStorageError>; code is the i32 of Other(i32), 0 elsewhere.
Ok == [tag |-> "Ok", code |-> 0]

Err(e) == [tag |-> e, code |-> 0]

Other(rc) == [tag |-> "Other", code |-> rc]

\* check_rc that takes every status up to 0 for success.
check_rc_nonpositive_ok(rc) ==
    CASE rc <= 0 -> Ok
      [] rc = 1  -> Err("IoError")
      [] rc = 2  -> Err("IoTimeout")
      [] OTHER   -> Other(rc)

check_rc(rc) ==
    CASE rc = 0 -> Ok
      [] rc = 1 -> Err("IoError")
      [] rc = 2 -> Err("IoTimeout")
      [] OTHER  -> Other(rc)

\* -------------------------------------------------------------------- state

VARIABLES
    pc,               \* "new": FlashStorage::new has built the struct literal
                      \* and not yet read the identification; "ready": new has
                      \* returned; "probe"/"probed": a bare validation call
    capacity,         \* FlashStorage.capacity
    unlocked,         \* FlashStorage.unlocked
    last,             \* the operation that ran last: its arguments and result
    calls,            \* the ROM calls that operation made, in order
    unlock_ok_calls,  \* ROM unlock calls that returned 0, since construction
    probe             \* arguments and outcome of a bare validation call

vars == <<pc, capacity, unlocked, last, calls, unlock_ok_calls, probe>>

RCs == -1 .. MaxRc

Bytes == 0 .. 255

\* The values drawn for buffer[3]: every high nibble, with the low nibble all
\* zeros or all ones.
IdBytes == {b \in Bytes : b % 16 \in {0, 15}}

\* The record of an operation: id3 is buffer[3] of FlashStorage::new after its
\* read (0 for the others), was_unlocked the unlocked flag when it began.
Op(op, offset, len, result, id3) ==
    [op |-> op, offset |-> offset, len |-> len, result |-> result, id3 |-> id3,
     was_unlocked |-> unlocked]

NoOp == Op("none", u32(0), 0, Ok, 0)

NoProbe == [fn |-> "none", offset |-> u32(0), len |-> 0, result |-> Ok,
            overflow |-> FALSE]

Call(fn, offset, len, rc) == [fn |-> fn, offset |-> offset, len |-> len, rc |-> rc]

\* --------------------------------------------------------------- validation

\* check_alignment with the length left unchecked.
check_alignment_offset_only(ALIGN, offset, length) ==
    IF u32_rem(offset, ALIGN) # 0
    THEN Err("NotAligned")
    ELSE Ok

\* check_alignment::<ALIGN>(offset, length)
check_alignment(ALIGN, offset, length) ==
    IF u32_rem(offset, ALIGN) # 0 \/ length % ALIGN # 0
    THEN Err("NotAligned")
    ELSE Ok

\* check_bounds with `>=` for both `>`.
check_bounds_eval_strict(offset, length) ==
    IF length >= capacity
    THEN [result |-> Err("OutOfBounds"), overflow |-> FALSE]
    ELSE LET d == overflowing_sub(u32(capacity), u32(length))
         IN  [result   |-> IF ~u32_gt(d.value, offset) THEN Err("OutOfBounds") ELSE Ok,
              overflow |-> d.overflow]

\* check_bounds with only `length > self.capacity`.
check_bounds_eval_length_only(offset, length) ==
    IF length > capacity
    THEN [result |-> Err("OutOfBounds"), overflow |-> FALSE]
    ELSE [result |-> Ok, overflow |-> FALSE]

\* check_bounds with only `offset > self.capacity - length`.
check_bounds_eval_no_length_check(offset, length) ==
    LET d == overflowing_sub(u32(capacity), u32(length))
    IN  [result   |-> IF u32_gt(offset, d.value) THEN Err("OutOfBounds") ELSE Ok,
         overflow |-> d.overflow]

\* check_bounds(offset, length), with whether `self.capacity - length` wrapped.
\* `||` short-circuits: the subtraction is evaluated only when the first
\* comparison is false.
check_bounds_eval(offset, length) ==
    IF length > capacity
    THEN [result |-> Err("OutOfBounds"), overflow |-> FALSE]
    ELSE LET d == overflowing_sub(u32(capacity), u32(length))
         IN  [result   |-> IF u32_gt(offset, d.value) THEN Err("OutOfBounds") ELSE Ok,
              overflow |-> d.overflow]

check_bounds(offset, length) == check_bounds_eval(offset, length).result

\* ------------------------------------------------------ internal functions
\* The ROM is external: a call may return any status of RCs.  So a function
\* that calls it has a set of possible outcomes, each with its Result, the
\* ROM calls made (with the status each returned) and the unlocked flag left.

Outcome(result, made, flag) == [result |-> result, calls |-> made, unlocked |-> flag]

\* internal_read that unlocks first, as internal_write does.
internal_read_unlocking(offset, len) ==
    UNION {IF u.result # Ok
           THEN {u}
           ELSE {Outcome(check_rc(rc),
                         u.calls \o <<Call("read", offset, len, rc)>>,
                         u.unlocked) : rc \in RCs} :
           u \in IF ~unlocked
                 THEN {IF rc # 0
                       THEN Outcome(Err("CantUnlock"), <<Call("unlock", u32(0), 0, rc)>>, unlocked)
                       ELSE Outcome(Ok, <<Call("unlock", u32(0), 0, rc)>>, TRUE) : rc \in RCs}
                 ELSE {Outcome(Ok, <<>>, unlocked)}}

internal_read(offset, len) ==
    {Outcome(check_rc(rc), <<Call("read", offset, len, rc)>>, unlocked) : rc \in RCs}

\* unlock_once that drops the ROM's status.
unlock_once_ignoring_status ==
    IF ~unlocked
    THEN {Outcome(Ok, <<Call("unlock", u32(0), 0, rc)>>, rc = 0) : rc \in RCs}
    ELSE {Outcome(Ok, <<>>, unlocked)}

\* unlock_once that never sets the flag.
unlock_once_forgetting_flag ==
    IF ~unlocked
    THEN {IF rc # 0
          THEN Outcome(Err("CantUnlock"), <<Call("unlock", u32(0), 0, rc)>>, unlocked)
          ELSE Outcome(Ok, <<Call("unlock", u32(0), 0, rc)>>, unlocked) : rc \in RCs}
    ELSE {Outcome(Ok, <<>>, unlocked)}

\* unlock_once that sets the flag before it calls the ROM.
unlock_once_flag_first ==
    IF ~unlocked
    THEN {IF rc # 0
          THEN Outcome(Err("CantUnlock"), <<Call("unlock", u32(0), 0, rc)>>, TRUE)
          ELSE Outcome(Ok, <<Call("unlock", u32(0), 0, rc)>>, TRUE) : rc \in RCs}
    ELSE {Outcome(Ok, <<>>, unlocked)}

unlock_once ==
    IF ~unlocked
    THEN {IF rc # 0
          THEN Outcome(Err("CantUnlock"), <<Call("unlock", u32(0), 0, rc)>>, unlocked)
          ELSE Outcome(Ok, <<Call("unlock", u32(0), 0, rc)>>, TRUE) : rc \in RCs}
    ELSE {Outcome(Ok, <<>>, unlocked)}

\* internal_erase that refuses a sector at or past the end of the device.
internal_erase_bounded(sector) ==
    IF ~u32_gt(u32(capacity \div SECTOR_SIZE), sector)
    THEN {Outcome(Err("OutOfBounds"), <<>>, unlocked)}
    ELSE UNION {IF u.result # Ok
                THEN {u}
                ELSE {Outcome(check_rc(rc),
                              u.calls \o <<Call("erase_sector", sector, 0, rc)>>,
                              u.unlocked) : rc \in RCs} : u \in unlock_once}

internal_erase(sector) ==
    UNION {IF u.result # Ok
           THEN {u}
           ELSE {Outcome(check_rc(rc),
                         u.calls \o <<Call("erase_sector", sector, 0, rc)>>,
                         u.unlocked) : rc \in RCs} : u \in unlock_once}

\* internal_write that calls the ROM a second time when the first call fails.
internal_write_retrying(offset, len) ==
    UNION {IF u.result # Ok
           THEN {u}
           ELSE UNION {IF rc = 0
                       THEN {Outcome(check_rc(rc),
                                     u.calls \o <<Call("write", offset, len, rc)>>,
                                     u.unlocked)}
                       ELSE {Outcome(check_rc(rc2),
                                     u.calls \o <<Call("write", offset, len, rc),
                                                  Call("write", offset, len, rc2)>>,
                                     u.unlocked) : rc2 \in RCs} : rc \in RCs} :
           u \in unlock_once}

\* internal_write that clears the flag when the ROM write fails.
internal_write_relocking(offset, len) ==
    UNION {IF u.result # Ok
           THEN {u}
           ELSE {Outcome(check_rc(rc),
                         u.calls \o <<Call("write", offset, len, rc)>>,
                         u.unlocked /\ rc = 0) : rc \in RCs} : u \in unlock_once}

internal_write(offset, len) ==
    UNION {IF u.result # Ok
           THEN {u}
           ELSE {Outcome(check_rc(rc),
                         u.calls \o <<Call("write", offset, len, rc)>>,
                         u.unlocked) : rc \in RCs} : u \in unlock_once}

\* -------------------------------------------------------- public functions

\* read_uninit with the two checks in the other order.
read_uninit_alignment_first(offset, len) ==
    IF check_alignment(WORD_SIZE, offset, len) # Ok
    THEN {Outcome(check_alignment(WORD_SIZE, offset, len), <<>>, unlocked)}
    ELSE IF check_bounds(offset, len) # Ok
    THEN {Outcome(check_bounds(offset, len), <<>>, unlocked)}
    ELSE internal_read(offset, len)

read_uninit(offset, len) ==
    IF check_bounds(offset, len) # Ok
    THEN {Outcome(check_bounds(offset, len), <<>>, unlocked)}
    ELSE IF check_alignment(WORD_SIZE, offset, len) # Ok
    THEN {Outcome(check_alignment(WORD_SIZE, offset, len), <<>>, unlocked)}
    ELSE internal_read(offset, len)

\* read that goes to internal_read itself, without the checks.
read_unchecked(offset, len) == internal_read(offset, len)

\* read transmutes its &mut [u8] to &mut [MaybeUninit<u8>]: same length.
read(offset, len) == read_uninit(offset, len)

\* write without the alignment check.
write_without_alignment(offset, len) ==
    IF check_bounds(offset, len) # Ok
    THEN {Outcome(check_bounds(offset, len), <<>>, unlocked)}
    ELSE internal_write(offset, len)

\* write that unlocks before it validates.
write_unlock_first(offset, len) ==
    UNION {IF u.result # Ok
           THEN {u}
           ELSE IF check_bounds(offset, len) # Ok
           THEN {Outcome(check_bounds(offset, len), u.calls, u.unlocked)}
           ELSE IF check_alignment(WORD_SIZE, offset, len) # Ok
           THEN {Outcome(check_alignment(WORD_SIZE, offset, len), u.calls, u.unlocked)}
           ELSE {Outcome(check_rc(rc),
                         u.calls \o <<Call("write", offset, len, rc)>>,
                         u.unlocked) : rc \in RCs} : u \in unlock_once}

write(offset, len) ==
    IF check_bounds(offset, len) # Ok
    THEN {Outcome(check_bounds(offset, len), <<>>, unlocked)}
    ELSE IF check_alignment(WORD_SIZE, offset, len) # Ok
    THEN {Outcome(check_alignment(WORD_SIZE, offset, len), <<>>, unlocked)}
    ELSE internal_write(offset, len)

\* The match with one more density, 0x50 => 32.
megabytes_with_32(id3) ==
    LET nibble == id3 - (id3 % 16)
    IN  CASE nibble = 0  -> 1
          [] nibble = 16 -> 2
          [] nibble = 32 -> 4
          [] nibble = 48 -> 8
          [] nibble = 64 -> 16
          [] nibble = 80 -> 32
          [] OTHER       -> 0

\* The match on buffer[3] itself, the `& 0xf0` left out.
megabytes_unmasked(id3) ==
    CASE id3 = 0  -> 1
      [] id3 = 16 -> 2
      [] id3 = 32 -> 4
      [] id3 = 48 -> 8
      [] id3 = 64 -> 16
      [] OTHER    -> 0

\* The `match buffer[3] & 0xf0` of FlashStorage::new.
megabytes(id3) ==
    LET nibble == id3 - (id3 % 16)
    IN  CASE nibble = 0  -> 1
          [] nibble = 16 -> 2
          [] nibble = 32 -> 4
          [] nibble = 48 -> 8
          [] nibble = 64 -> 16
          [] OTHER       -> 0

\* ------------------------------------------------------------------- inputs

\* Misalignments drawn: one byte past a word boundary, three bytes before it.
Skews == {1, 1 - WORD_SIZE}

\* The naturals around n: the word-aligned steps within NearWords words of
\* it, and n skewed.
Near(n, skews) ==
    {m \in {n + (k * WORD_SIZE) : k \in (0 - NearWords) .. NearWords}
           \cup {n + r : r \in skews} : m >= 0}

\* u32s in the last NearWords words below 2^32.
NearTop(skews) ==
    {<<LIMB - 1, LIMB - (k * WORD_SIZE)>> : k \in 1 .. NearWords}
        \cup {<<LIMB - 1, (LIMB - WORD_SIZE) + r>> : r \in skews \cap (1 .. (WORD_SIZE - 1))}

Offsets(skews) ==
    {u32(n) : n \in Near(0, skews) \cup Near(capacity, skews)} \cup NearTop(skews)

Lengths(skews) == Near(0, skews) \cup Near(capacity, skews)

Sectors == {u32(n) : n \in (0 .. MaxSector) \cup {capacity \div SECTOR_SIZE}} \cup {U32_MAX}

Capacities == {mb * MIB : mb \in {0, 1, 2, 4, 8, 16}}

\* ------------------------------------------------------------------ actions

Init ==
    /\ pc = "new"
    /\ capacity = 0
    /\ unlocked = FALSE
    /\ last = NoOp
    /\ calls = <<>>
    /\ unlock_ok_calls = 0
    /\ probe = NoProbe

\* How many of the calls `made` are ROM unlock calls that returned 0.
UnlockOks(made) == Cardinality({i \in DOMAIN made : made[i].fn = "unlock" /\ made[i].rc = 0})

\* The rest of FlashStorage::new: read the identification, set capacity.
\* The read's Result is dropped (`.ok()`).  id3 is buffer[3] after the read:
\* whatever the ROM stored, or the initial 0 where it stored nothing.
\* new that reads through read_uninit, checks included.
NewFrom_validating(ids) ==
    /\ pc = "new"
    /\ \E addr \in {ADDR_DEFAULT, ADDR_ESP32}, id3 \in ids :
         \E r \in read_uninit(u32(addr), ID_LEN) :
            /\ capacity' = megabytes(IF r.calls = <<>> THEN 0 ELSE id3) * 1024 * 1024
            /\ unlocked' = r.unlocked
            /\ calls' = r.calls
            /\ last' = Op("new", u32(addr), ID_LEN, Ok, IF r.calls = <<>> THEN 0 ELSE id3)
    /\ pc' = "ready"
    /\ UNCHANGED <<unlock_ok_calls, probe>>

NewFrom(ids) ==
    /\ pc = "new"
    /\ \E addr \in {ADDR_DEFAULT, ADDR_ESP32}, id3 \in ids :
         \E r \in internal_read(u32(addr), ID_LEN) :
            /\ capacity' = megabytes(id3) * 1024 * 1024
            /\ unlocked' = r.unlocked
            /\ calls' = r.calls
            /\ last' = Op("new", u32(addr), ID_LEN, Ok, id3)
    /\ pc' = "ready"
    /\ UNCHANGED <<unlock_ok_calls, probe>>

New == NewFrom(IdBytes)

\* An operation on the constructed device ends with outcome r.
Finish(op, offset, len, r) ==
    /\ last' = Op(op, offset, len, r.result, 0)
    /\ calls' = r.calls
    /\ unlocked' = r.unlocked
    /\ unlock_ok_calls' = unlock_ok_calls + UnlockOks(r.calls)
    /\ UNCHANGED <<pc, capacity, probe>>

Read ==
    /\ pc = "ready"
    /\ \E offset \in Offsets(Skews), len \in Lengths(Skews) :
         \E r \in read(offset, len) : Finish("read", offset, len, r)

ReadUninit ==
    /\ pc = "ready"
    /\ \E offset \in Offsets(Skews), len \in Lengths(Skews) :
         \E r \in read_uninit(offset, len) : Finish("read_uninit", offset, len, r)

Write ==
    /\ pc = "ready"
    /\ \E offset \in Offsets(Skews), len \in Lengths(Skews) :
         \E r \in write(offset, len) : Finish("write", offset, len, r)

Erase ==
    /\ pc = "ready"
    /\ \E sector \in Sectors :
         \E r \in internal_erase(sector) : Finish("erase", sector, 0, r)

Next == New \/ Read \/ ReadUninit \/ Write \/ Erase

Spec == Init /\ [][Next]_vars

\* ------------------------------------------- the validation functions alone
\* check_bounds and check_alignment are pub(crate) and pure in (self.capacity,
\* offset, length).  SpecValidate calls one of them once, on a device in any
\* state new() and the operations can leave it in, with arguments from the
\* whole width of their types.

ISIZE_MAX == ((2^30 - 1) * 2) + 1

WideSkews == (1 - WORD_SIZE) .. (WORD_SIZE - 1)

WideLengths ==
    Lengths(WideSkews) \cup {ISIZE_MAX - (k * WORD_SIZE) - r : k \in 0 .. NearWords, r \in 0 .. (WORD_SIZE - 1)}

InitValidate ==
    /\ pc = "probe"
    /\ capacity \in Capacities
    /\ unlocked \in BOOLEAN
    /\ last = NoOp
    /\ calls = <<>>
    /\ unlock_ok_calls = (IF unlocked THEN 1 ELSE 0)
    /\ probe \in {[NoProbe EXCEPT !.offset = o, !.len = l] :
                    o \in Offsets(WideSkews), l \in WideLengths}

ProbeBounds ==
    /\ pc = "probe"
    /\ pc' = "probed"
    /\ probe' = [probe EXCEPT !.fn = "check_bounds",
                              !.result = check_bounds(probe.offset, probe.len),
                              !.overflow = check_bounds_eval(probe.offset, probe.len).overflow]
    /\ UNCHANGED <<capacity, unlocked, last, calls, unlock_ok_calls>>

ProbeAlignment ==
    /\ pc = "probe"
    /\ pc' = "probed"
    /\ probe' = [probe EXCEPT !.fn = "check_alignment",
                              !.result = check_alignment(WORD_SIZE, probe.offset, probe.len)]
    /\ UNCHANGED <<capacity, unlocked, last, calls, unlock_ok_calls>>

NextValidate == ProbeBounds \/ ProbeAlignment

SpecValidate == InitValidate /\ [][NextValidate]_vars

\* ------------------------------------------------------- construction alone
\* FlashStorage::new with buffer[3] drawn from every byte.

NewAny == NewFrom(Bytes)

SpecNew == Init /\ [][NewAny]_vars


\* ------------------------------------------------------------------- claims
\* What the claims speak of, stated without the code's own formulas.

\* The value of a u32 below 2^30.
val(a) == (a[1] * LIMB) + a[2]

\* offset + length <= cap as a sum of naturals (cap is below 2^30, so a term of
\* 2^30 or more already exceeds it).
RangeWithin(offset, length, cap) ==
    /\ offset[1] < 2^14
    /\ length < 2^30
    /\ val(offset) + length <= cap

\* n is a whole number of words.
WholeWords(n) == (n \div WORD_SIZE) * WORD_SIZE = n

\* offset and length are multiples of 4 (2^16 is one, so the low limb decides).
WordAligned(offset, length) == WholeWords(offset[2]) /\ WholeWords(length)

HasCall(fn) == \E i \in DOMAIN calls : calls[i].fn = fn

CallCount(fn) == Cardinality({i \in DOMAIN calls : calls[i].fn = fn})

Validated == {"read", "read_uninit", "write"}

\* C1: the ROM write and erase-sector routines are called only with the
\* unlocked flag true, and only after a ROM unlock call that returned 0.
C1_NoMutationWhileLocked ==
    /\ unlocked => unlock_ok_calls >= 1
    /\ \A i \in DOMAIN calls :
         calls[i].fn \in {"write", "erase_sector"} =>
            /\ unlocked
            /\ unlock_ok_calls >= 1
            /\ last.was_unlocked \/ \E j \in 1 .. (i - 1) :
                                       calls[j].fn = "unlock" /\ calls[j].rc = 0

\* An erase on a locked device that unlocked and then erased.
C1_Witness ==
    /\ last.op = "erase"
    /\ ~last.was_unlocked
    /\ Len(calls) = 2
    /\ calls[1].fn = "unlock" /\ calls[1].rc = 0
    /\ calls[2].fn = "erase_sector"

\* C2: once a ROM unlock call has returned 0 the device stays unlocked and
\* unlock is never called again: at most one unlock call ever returns 0, an
\* operation that began unlocked calls no unlock and ends unlocked, and a
\* valid write that is not refused with CantUnlock calls the ROM write exactly
\* once (so N such writes make N write calls and one successful unlock call).
C2_UnlockedForGood ==
    /\ unlock_ok_calls <= 1
    /\ unlock_ok_calls = 1 => unlocked
    /\ last.was_unlocked => unlocked /\ ~HasCall("unlock")
    /\ (/\ last.op = "write"
        /\ RangeWithin(last.offset, last.len, capacity)
        /\ WordAligned(last.offset, last.len)
        /\ last.result.tag # "CantUnlock") => CallCount("write") = 1

\* A valid write on a device an earlier operation unlocked.
C2_Witness ==
    /\ last.op = "write"
    /\ last.was_unlocked
    /\ unlock_ok_calls = 1
    /\ calls = <<Call("write", last.offset, last.len, 0)>>
    /\ last.len > 0

\* C3: a nonzero status from the ROM unlock fails the write or erase with
\* CantUnlock, with no other ROM call, and leaves the device locked; and every
\* valid write and every erase that begins locked calls the ROM unlock first.
C3_UnlockFailure ==
    /\ (\E i \in DOMAIN calls : calls[i].fn = "unlock" /\ calls[i].rc # 0) =>
          /\ last.op \in {"write", "erase"}
          /\ last.result = Err("CantUnlock")
          /\ Len(calls) = 1
          /\ ~unlocked
          /\ ~last.was_unlocked
    /\ (/\ ~last.was_unlocked
        /\ \/ last.op = "erase"
           \/ /\ last.op = "write"
              /\ RangeWithin(last.offset, last.len, capacity)
              /\ WordAligned(last.offset, last.len)) =>
          /\ Len(calls) >= 1
          /\ calls[1].fn = "unlock"

\* A write whose unlock the ROM refused.
C3_Witness ==
    /\ last.op = "write"
    /\ last.result = Err("CantUnlock")
    /\ Len(calls) = 1
    /\ calls[1].fn = "unlock" /\ calls[1].rc # 0
    /\ ~unlocked

\* C4: every ROM read call of read/read_uninit and every ROM write call of
\* write carries the caller's offset and length, which lie within capacity and
\* are multiples of 4.
C4_ValidatedAccess ==
    last.op \in Validated =>
        \A i \in DOMAIN calls :
            calls[i].fn \in {"read", "write"} =>
               /\ calls[i].fn = (IF last.op = "write" THEN "write" ELSE "read")
               /\ calls[i].offset = last.offset
               /\ calls[i].len = last.len
               /\ RangeWithin(calls[i].offset, calls[i].len, capacity)
               /\ WordAligned(calls[i].offset, calls[i].len)

\* A write of the last word of a device, which reached the ROM.
C4_Witness ==
    /\ last.op = "write"
    /\ capacity > 0
    /\ last.len = WORD_SIZE
    /\ val(last.offset) = capacity - WORD_SIZE
    /\ HasCall("write")

\* C5: a read, read_uninit or write whose arguments fail validation returns
\* NotAligned or OutOfBounds, makes no ROM call at all (no unlock either, even
\* on a locked device) and leaves capacity and unlocked as they were.
C5_RejectedBeforeAnyCall ==
    [][(/\ last'.op \in Validated
        /\ ~(RangeWithin(last'.offset, last'.len, capacity)
             /\ WordAligned(last'.offset, last'.len))) =>
          /\ last'.result \in {Err("NotAligned"), Err("OutOfBounds")}
          /\ calls' = <<>>
          /\ unlocked' = unlocked
          /\ capacity' = capacity]_vars

\* A misaligned write on a locked device, refused with nothing called.
C5_Witness ==
    /\ last.op = "write"
    /\ last.result = Err("NotAligned")
    /\ ~last.was_unlocked
    /\ ~unlocked
    /\ calls = <<>>

\* C6: check_bounds succeeds exactly when offset + length <= capacity, fails
\* with OutOfBounds otherwise, and its subtraction never wraps.
C6_BoundsExact ==
    probe.fn = "check_bounds" =>
        /\ probe.result = (IF RangeWithin(probe.offset, probe.len, capacity)
                           THEN Ok ELSE Err("OutOfBounds"))
        /\ ~probe.overflow

\* check_bounds refused a length above capacity.
C6_Witness ==
    /\ probe.fn = "check_bounds"
    /\ probe.len > capacity
    /\ probe.offset = u32(0)
    /\ probe.result = Err("OutOfBounds")

\* C7: bounds are checked before alignment: a request out of bounds is
\* OutOfBounds whether aligned or not, and NotAligned is returned only for a
\* request within capacity.
C7_BoundsBeforeAlignment ==
    last.op \in Validated =>
        /\ ~RangeWithin(last.offset, last.len, capacity) =>
              last.result = Err("OutOfBounds")
        /\ last.result = Err("NotAligned") =>
              RangeWithin(last.offset, last.len, capacity)

\* A read both out of bounds and misaligned, reported OutOfBounds.
C7_Witness ==
    /\ last.op = "read"
    /\ ~RangeWithin(last.offset, last.len, capacity)
    /\ ~WordAligned(last.offset, last.len)
    /\ last.result = Err("OutOfBounds")

\* C8: check_alignment::<4> fails with NotAligned when offset or length is not
\* a multiple of 4 and succeeds otherwise, whatever the capacity and the
\* unlocked flag.
C8_AlignmentExact ==
    probe.fn = "check_alignment" =>
        probe.result = (IF WordAligned(probe.offset, probe.len)
                        THEN Ok ELSE Err("NotAligned"))

\* check_alignment accepted offset 0, length 0 on a device of capacity 0.
C8_Witness ==
    /\ probe.fn = "check_alignment"
    /\ probe.offset = u32(0)
    /\ probe.len = 0
    /\ capacity = 0
    /\ probe.result = Ok

\* C9: read, read_uninit and new's identification read call no ROM unlock,
\* leave unlocked as it was and never return CantUnlock; a valid read makes
\* exactly its ROM read call, locked or not.
C9_ReadsIgnoreUnlock ==
    last.op \in {"read", "read_uninit", "new"} =>
        /\ ~HasCall("unlock")
        /\ unlocked = last.was_unlocked
        /\ unlock_ok_calls = (IF unlocked THEN 1 ELSE 0)
        /\ last.result.tag # "CantUnlock"
        /\ (\/ last.op = "new"
            \/ /\ RangeWithin(last.offset, last.len, capacity)
               /\ WordAligned(last.offset, last.len)) =>
              /\ Len(calls) = 1
              /\ calls[1].fn = "read"

\* A valid read on a locked device that reached the ROM and succeeded.
C9_Witness ==
    /\ last.op = "read_uninit"
    /\ ~unlocked
    /\ last.len > 0
    /\ calls = <<Call("read", last.offset, last.len, 0)>>
    /\ last.result = Ok

\* C10: when new's identification read fails, the device new returns has
\* capacity 0.
C10_FailedDetectionIsZero ==
    (last.op = "new" /\ calls[1].rc # 0) => capacity = 0

\* C11: the capacity new detects is (1, 2, 4, 8, 16 for high nibble 0..4 of
\* buffer[3], else 0) * 1,048,576, whatever the low nibble.
C11_CapacityFromHighNibble ==
    last.op = "new" =>
        LET nibble == last.id3 \div 16
        IN  capacity = (IF nibble <= 4 THEN 2^nibble ELSE 0) * 1048576

\* buffer[3] = 0x2f: density nibble 2, low nibble all ones, 4 MiB.
C11_Witness ==
    /\ last.op = "new"
    /\ last.id3 = 47
    /\ capacity = 4 * 1024 * 1024

\* One of the capacities of the identification table, or 0.
TableCapacity(c) == \E mb \in {0, 1, 2, 4, 8, 16} : c = mb * 1048576

DataCalls == {"read", "write", "erase_sector"}

\* The Result the status rc of a ROM data call stands for.
Translates(rc, result) ==
    /\ rc = 0 => result.tag = "Ok"
    /\ rc = 1 => result.tag = "IoError"
    /\ rc = 2 => result.tag = "IoTimeout"
    /\ rc \notin {0, 1, 2} => result.tag = "Other" /\ result.code = rc
    /\ result.tag # "Other" => result.code = 0

\* C12: once new has returned, capacity is 0 or 1, 2, 4, 8 or 16 MiB, and no
\* read, read_uninit, write or erase changes it or reads the identification
\* again: a write or erase makes no ROM read call, a read at most its own.
C12_CapacityFixed ==
    /\ [](pc = "ready" => TableCapacity(capacity))
    /\ [][pc = "ready" =>
            /\ capacity' = capacity
            /\ pc' = "ready"
            /\ last'.op \in {"write", "erase"} =>
                  \A i \in DOMAIN calls' : calls'[i].fn # "read"
            /\ last'.op \in {"read", "read_uninit"} =>
                  \A i \in DOMAIN calls' :
                      calls'[i].fn = "read" =>
                         i = 1 /\ calls'[i].offset = last'.offset /\ calls'[i].len = last'.len]_vars

\* A failed write on a 16 MiB device.
C12_Witness ==
    /\ pc = "ready"
    /\ capacity = 16 * 1048576
    /\ last.op = "write"
    /\ last.result = Err("IoError")

\* C13: read, read_uninit, write and erase translate the status of their ROM
\* data call alike: 0 is success, 1 IoError, 2 IoTimeout, any other status rc
\* (negative too) Other(rc); and an operation that made its data call made it
\* once, last, and returns what that status translates to.
C13_StatusTranslation ==
    \A i \in DOMAIN calls :
        (last.op # "new" /\ calls[i].fn \in DataCalls) =>
            /\ i = Len(calls)
            /\ Translates(calls[i].rc, last.result)

\* An erase whose ROM call returned -1.
C13_Witness ==
    /\ last.op = "erase"
    /\ Len(calls) >= 1
    /\ calls[Len(calls)].fn = "erase_sector"
    /\ calls[Len(calls)].rc = 0 - 1
    /\ last.result = [tag |-> "Other", code |-> 0 - 1]

\* C14: on a device of capacity 0, a read of length 0 at offset 0 passes both
\* checks: it makes its ROM read call and returns what the status translates
\* to, never OutOfBounds.
C14_EmptyReadOnEmptyDevice ==
    (/\ last.op \in {"read", "read_uninit"}
     /\ capacity = 0
     /\ last.offset = u32(0)
     /\ last.len = 0) =>
        /\ last.result.tag \notin {"OutOfBounds", "NotAligned"}
        /\ Len(calls) = 1
        /\ calls = <<Call("read", u32(0), 0, calls[1].rc)>>
        /\ Translates(calls[1].rc, last.result)

\* Such a read, which the ROM answered with 0.
C14_Witness ==
    /\ last.op = "read"
    /\ capacity = 0
    /\ last.offset = u32(0)
    /\ last.len = 0
    /\ last.result = Ok
    /\ Len(calls) = 1

\* C15, as claimed: on a device of capacity 0 every read, read_uninit and
\* write returns OutOfBounds and makes no ROM call.
C15_AllRejectedOnEmptyDevice ==
    (last.op \in Validated /\ capacity = 0) =>
        /\ last.result = Err("OutOfBounds")
        /\ calls = <<>>

\* C15, amended: on a device of capacity 0 every read, read_uninit and write
\* with a nonzero offset or a nonzero length returns OutOfBounds and makes no
\* ROM call; the request of length 0 at offset 0 is not refused.
C15_NonEmptyRejectedOnEmptyDevice ==
    (last.op \in Validated /\ capacity = 0) =>
        IF last.offset = u32(0) /\ last.len = 0
        THEN last.result.tag \notin {"OutOfBounds", "NotAligned"} /\ Len(calls) >= 1
        ELSE last.result = Err("OutOfBounds") /\ calls = <<>>

\* A write of length 0 at a nonzero aligned offset, refused on capacity 0.
C15_Witness ==
    /\ last.op = "write"
    /\ capacity = 0
    /\ last.offset = u32(WORD_SIZE)
    /\ last.len = 0
    /\ last.result = Err("OutOfBounds")
    /\ calls = <<>>

\* C16: read behaves as read_uninit does: from the same device state, with the
\* same offset and length, each Result, ROM call and flag that read can end
\* with is one read_uninit can end with, and the other way round.
C16_ReadIsReadUninit ==
    [][/\ last'.op = "read" =>
             Outcome(last'.result, calls', unlocked') \in read_uninit(last'.offset, last'.len)
       /\ last'.op = "read_uninit" =>
             Outcome(last'.result, calls', unlocked') \in read(last'.offset, last'.len)]_vars

\* A valid read the ROM timed out on.
C16_Witness ==
    /\ last.op = "read"
    /\ last.len > 0
    /\ calls = <<Call("read", last.offset, last.len, 2)>>
    /\ last.result = Err("IoTimeout")

\* C17: erase checks neither bounds nor alignment, whatever the sector and the
\* capacity.  It calls the ROM unlock first exactly when the device is locked
\* (the flag write uses); unless that fails, it then calls the ROM
\* erase-sector once, with the sector given, and returns what its status
\* translates to, leaving the device unlocked.
C17_EraseUnchecked ==
    last.op = "erase" =>
        /\ last.result.tag \notin {"OutOfBounds", "NotAligned"}
        /\ Len(calls) >= 1
        /\ HasCall("unlock") <=> ~last.was_unlocked
        /\ HasCall("unlock") => calls[1].fn = "unlock"
        /\ IF last.result = Err("CantUnlock")
           THEN Len(calls) = 1 /\ calls[1].fn = "unlock" /\ calls[1].rc # 0
           ELSE /\ CallCount("erase_sector") = 1
                /\ calls[Len(calls)] =
                      Call("erase_sector", last.offset, 0, calls[Len(calls)].rc)
                /\ Translates(calls[Len(calls)].rc, last.result)
                /\ unlocked

\* An erase of sector 2^32 - 1 on a device of capacity 0, which succeeded.
C17_Witness ==
    /\ last.op = "erase"
    /\ capacity = 0
    /\ last.offset = U32_MAX
    /\ last.result = Ok
    /\ HasCall("erase_sector")

\* C18: an operation makes at most one ROM unlock call and at most one ROM
\* data call, the data call last; when the data call returns a nonzero status
\* the operation returns an error and has made no call after it.
C18_NoRetry ==
    /\ CallCount("unlock") <= 1
    /\ Cardinality({i \in DOMAIN calls : calls[i].fn \in DataCalls}) <= 1
    /\ \A i \in DOMAIN calls :
          calls[i].fn \in DataCalls =>
             /\ i = Len(calls)
             /\ (calls[i].rc # 0 /\ last.op # "new") => last.result # Ok

\* A write on an unlocked device that failed after one ROM call.
C18_Witness ==
    /\ last.op = "write"
    /\ last.was_unlocked
    /\ calls = <<Call("write", last.offset, last.len, 1)>>
    /\ last.result = Err("IoError")

\* C19: a write or erase whose unlock succeeded and whose ROM data call then
\* failed leaves the device unlocked; and a valid write or an erase that
\* begins unlocked makes its ROM data call and no other.
C19_FailureKeepsUnlocked ==
    /\ (/\ Len(calls) = 2
        /\ calls[1].fn = "unlock" /\ calls[1].rc = 0
        /\ calls[2].rc # 0) =>
          /\ unlocked
          /\ unlock_ok_calls = 1
          /\ last.result.tag \in {"IoError", "IoTimeout", "Other"}
    /\ (last.was_unlocked /\ last.op \in {"write", "erase"}) => unlocked
    /\ (/\ last.was_unlocked
        /\ \/ last.op = "erase"
           \/ /\ last.op = "write"
              /\ RangeWithin(last.offset, last.len, capacity)
              /\ WordAligned(last.offset, last.len)) =>
          /\ Len(calls) = 1
          /\ calls[1].fn = (IF last.op = "erase" THEN "erase_sector" ELSE "write")

\* A write on a locked device: the unlock succeeded, the ROM write timed out.
C19_Witness ==
    /\ last.op = "write"
    /\ Len(calls) = 2
    /\ calls[1] = Call("unlock", u32(0), 0, 0)
    /\ calls[2].fn = "write" /\ calls[2].rc = 2
    /\ unlocked

\* C20: new makes one ROM call, a read of 8 bytes at ADDR, though capacity is
\* still 0 and check_bounds would refuse it; it calls no unlock, write or
\* erase, and the device it returns is locked whatever the read returned.
C20_Construction ==
    [][pc = "new" =>
          /\ capacity = 0
          /\ ~RangeWithin(last'.offset, ID_LEN, capacity)
          /\ pc' = "ready"
          /\ last'.op = "new"
          /\ last'.offset \in {u32(0), u32(4096)}
          /\ Len(calls') = 1
          /\ calls'[1].fn = "read"
          /\ calls'[1].offset = last'.offset
          /\ calls'[1].len = 8
          /\ ~unlocked'
          /\ unlock_ok_calls' = 0]_vars

\* new returned a locked device after a read that failed.
C20_Witness ==
    /\ pc = "ready"
    /\ last.op = "new"
    /\ Len(calls) = 1
    /\ calls[1].rc = 1
    /\ ~unlocked

====
